---- MODULE Spec2Model ----
(***************************************************************************)
(* Model of the smart reader pipeline (utils/smart_reader.py):             *)
(* URL classification, the two fetch strategies, HTML / PDF extraction,    *)
(* reference mining and result assembly.                                   *)
(*                                                                         *)
(* A Python str is a sequence of one-character strings; None is NoneVal.   *)
(***************************************************************************)
EXTENDS Integers, Sequences, FiniteSets, TLC

VARIABLES
    url, use_playwright, entry,      \* the call: arguments and entry point
    pc, cls, steps,                  \* position, classification, steps run
    result, exc, output,             \* ReadResult, exception, markdown
    driver, browser, session, response, status,          \* resources
    strategy, timeout,               \* the fetch chosen and its timeout
    html_content, metadata, text_content, pdf_doc, content, references,
    text, accumulator, mined         \* one call of the reference miner

inputs == <<url, use_playwright, entry>>

resources == <<driver, browser, session, response, status>>

request == <<strategy, timeout>>

data == <<html_content, metadata, text_content, pdf_doc, content, references>>

miner == <<text, accumulator, mined>>

vars == <<inputs, pc, cls, steps, result, exc, output, resources, request,
          data, miner>>

(***************************************************************************)
(* Bounds of the model.                                                    *)
(***************************************************************************)
MaxUrlPieces == 3

(***************************************************************************)
(* Python values.                                                          *)
(***************************************************************************)
NoneVal == <<"<None>">>

Min(S) == CHOOSE x \in S : \A y \in S : x <= y

Max(S) == CHOOSE x \in S : \A y \in S : x >= y

\* "".join(ss), by halves
RECURSIVE Concat(_)
Concat(ss) ==
    IF ss = <<>> THEN <<>>
    ELSE IF Len(ss) = 1 THEN ss[1]
    ELSE LET h == Len(ss) \div 2
         IN  Concat(SubSeq(ss, 1, h)) \o Concat(SubSeq(ss, h + 1, Len(ss)))

\* sep.join(parts)
Join(sep, parts) ==
    IF parts = <<>> THEN <<>>
    ELSE Concat([i \in 1..(2 * Len(parts) - 1) |->
                   IF i % 2 = 1 THEN parts[(i + 1) \div 2] ELSE sep])

\* the concatenations of at most n elements of P
RECURSIVE PieceSeqs(_, _)
PieceSeqs(P, n) ==
    IF n = 0 THEN {<<>>}
    ELSE LET shorter == PieceSeqs(P, n - 1)
         IN  shorter \cup {p \o s : p \in P, s \in shorter}

(***************************************************************************)
(* str methods used by the code.                                           *)
(***************************************************************************)
UpperLetters ==
    <<"A","B","C","D","E","F","G","H","I","J","K","L","M",
      "N","O","P","Q","R","S","T","U","V","W","X","Y","Z">>

LowerLetters ==
    <<"a","b","c","d","e","f","g","h","i","j","k","l","m",
      "n","o","p","q","r","s","t","u","v","w","x","y","z">>

Digits == {"0","1","2","3","4","5","6","7","8","9"}

\* \s of the re module, within the alphabet of the model
Whitespace == {" ", "\t", "\n"}

LowerChar(c) ==
    IF \E i \in 1..26 : UpperLetters[i] = c
    THEN LowerLetters[CHOOSE i \in 1..26 : UpperLetters[i] = c]
    ELSE c

\* s.lower()
Lower(s) == [i \in 1..Len(s) |-> LowerChar(s[i])]

\* s[i:i+len(p)] == p   (i is 1-based)
MatchesAt(s, p, i) ==
    /\ i >= 1
    /\ i + Len(p) - 1 <= Len(s)
    /\ \A k \in 1..Len(p) : s[i + k - 1] = p[k]

\* p in s
Contains(s, p) == \E i \in 1..(Len(s) + 1) : MatchesAt(s, p, i)

\* s.endswith(p)
EndsWith(s, p) == MatchesAt(s, p, Len(s) - Len(p) + 1)

\* s.find(c, from): 1-based index of the first c at or after from, 0 if none
Find(s, c, from) ==
    LET hits == {i \in from..Len(s) : s[i] = c}
    IN  IF hits = {} THEN 0 ELSE Min(hits)

\* s.rfind(c): 1-based index of the last c, 0 if none
RFind(s, c) ==
    LET hits == {i \in 1..Len(s) : s[i] = c}
    IN  IF hits = {} THEN 0 ELSE Max(hits)

\* s[from:] and s[:to]  (1-based, inclusive)
From(s, from) == SubSeq(s, from, Len(s))

Upto(s, to) == SubSeq(s, 1, to)

\* s.lstrip(chars)
LStrip(s, chars) ==
    LET keep == {i \in 1..Len(s) : s[i] \notin chars}
    IN  IF keep = {} THEN <<>> ELSE From(s, Min(keep))

\* s.strip()
Strip(s) ==
    LET keep == {i \in 1..Len(s) : s[i] \notin Whitespace}
    IN  IF keep = {} THEN <<>> ELSE SubSeq(s, Min(keep), Max(keep))

\* s.replace(c, "") for every c of chars
RemoveChars(s, chars) == SelectSeq(s, LAMBDA c : c \notin chars)

(***************************************************************************)
(* urllib.parse.urlparse, as called by _is_pdf_url.                        *)
(***************************************************************************)
\* _WHATWG_C0_CONTROL_OR_SPACE, within the alphabet of the model
C0ControlOrSpace == {" ", "\t", "\n"}

\* _UNSAFE_URL_BYTES_TO_REMOVE
UnsafeUrlBytes == {"\t", "\n", "\r"}

\* scheme_chars
SchemeChars ==
    {UpperLetters[i] : i \in 1..26} \cup {LowerLetters[i] : i \in 1..26}
      \cup Digits \cup {"+", "-", "."}

Letters == {UpperLetters[i] : i \in 1..26} \cup {LowerLetters[i] : i \in 1..26}

\* uses_params
UsesParams ==
    { <<>>, <<"f","t","p">>, <<"h","d","l">>,
      <<"p","r","o","s","p","e","r","o">>, <<"h","t","t","p">>,
      <<"i","m","a","p">>, <<"h","t","t","p","s">>, <<"s","h","t","t","p">>,
      <<"r","t","s","p">>, <<"r","t","s","p","s">>, <<"r","t","s","p","u">>, <<"s","i","p">>,
      <<"s","i","p","s">>, <<"m","m","s">>, <<"s","f","t","p">>,
      <<"t","e","l">> }

\* ipaddress.ip_address(host) accepts host as an IPv6 address; of the hosts
\* the alphabet of the model can spell, only the loopback literal is one.
IsIPv6(host) == host = <<":", ":", "1">>

\* url after the lstrip and the removal of the unsafe characters
UrlCleaned(u) == RemoveChars(LStrip(u, C0ControlOrSpace), UnsafeUrlBytes)

\* position of the ':' that ends the scheme, 0 if the url has no scheme
SchemeEnd(u) ==
    LET i == Find(u, ":", 1)
    IN  IF /\ i > 1
           /\ u[1] \in Letters
           /\ \A k \in 1..(i - 1) : u[k] \in SchemeChars
        THEN i ELSE 0

\* urlsplit: [scheme, netloc, rest], rest being the url after the netloc
UrlSplitNetloc(u0) ==
    LET u      == UrlCleaned(u0)
        se     == SchemeEnd(u)
        scheme == IF se = 0 THEN <<>> ELSE Lower(Upto(u, se - 1))
        u1     == IF se = 0 THEN u ELSE From(u, se + 1)
        delims == {i \in 3..Len(u1) : u1[i] \in {"/", "?", "#"}}
        delim  == IF delims = {} THEN Len(u1) + 1 ELSE Min(delims)
        hasNet == MatchesAt(u1, <<"/", "/">>, 1)
    IN  [scheme |-> scheme,
         hasNet |-> hasNet,
         netloc |-> IF hasNet THEN SubSeq(u1, 3, delim - 1) ELSE <<>>,
         rest   |-> IF hasNet THEN From(u1, delim) ELSE u1]

\* the ValueError cases of urlsplit
UrlParseRaises(u0) ==
    LET s  == UrlSplitNetloc(u0)
        n  == s.netloc
        lb == Find(n, "[", 1)
        rb == Find(n, "]", 1)
        afterLb == From(n, lb + 1)
        rb2 == Find(afterLb, "]", 1)
        bracketed == IF rb2 = 0 THEN afterLb ELSE Upto(afterLb, rb2 - 1)
    IN  /\ s.hasNet
        /\ \/ lb > 0 /\ rb = 0
           \/ rb > 0 /\ lb = 0
           \/ lb > 0 /\ rb > 0 /\ ~IsIPv6(bracketed)

\* _splitparams(url)[0]
SplitParams(p) ==
    LET i == IF Find(p, "/", 1) > 0
             THEN Find(p, ";", RFind(p, "/"))
             ELSE Find(p, ";", 1)
    IN  IF i = 0 THEN p ELSE Upto(p, i - 1)

\* urlparse(url).path
UrlParsePath(u0) ==
    LET s  == UrlSplitNetloc(u0)
        h  == Find(s.rest, "#", 1)
        r1 == IF h = 0 THEN s.rest ELSE Upto(s.rest, h - 1)
        q  == Find(r1, "?", 1)
        r2 == IF q = 0 THEN r1 ELSE Upto(r1, q - 1)
    IN  IF s.scheme \in UsesParams /\ Find(r2, ";", 1) > 0
        THEN SplitParams(r2) ELSE r2

(***************************************************************************)
(* _is_pdf_url                                                             *)
(***************************************************************************)
pdf_patterns ==
    << <<"/","p","d","f","/">>,
       <<"/","d","o","w","n","l","o","a","d","/","p","d","f">>,
       <<"a","r","x","i","v",".","o","r","g","/","p","d","f">>,
       <<"e","x","p","o","r","t","=","d","o","w","n","l","o","a","d">> >>

dot_pdf == <<".", "p", "d", "f">>

\* the value _is_pdf_url returns when urlparse does not raise
is_pdf_url(u) ==
    \/ EndsWith(Lower(UrlParsePath(u)), dot_pdf)
    \/ \E k \in 1..Len(pdf_patterns) : Contains(Lower(u), pdf_patterns[k])

(***************************************************************************)
(* _extract_references_from_text: the three re.findall scans.              *)
(***************************************************************************)
MinRefLen == 10

MaxRefLen == 200

MinDoiDigits == 4

MaxRefs == 50

\* last index e in (lo - 1)..hi such that every character of t[lo..e]
\* satisfies: is in S (inS) or is outside S (~inS); found by bisection
RECURSIVE RunSearch(_, _, _, _, _)
RunSearch(t, lo, hi, S, inS) ==
    IF lo > hi THEN lo - 1
    ELSE LET mid == (lo + hi) \div 2
         IN  IF \A k \in lo..mid : (t[k] \in S) = inS
             THEN RunSearch(t, mid + 1, hi, S, inS)
             ELSE RunSearch(t, lo, mid - 1, S, inS)

\* last index of the run of characters of S that starts at from
\* (from - 1 when the run is empty)
RunEnd(t, from, S) == RunSearch(t, from, Len(t), S, TRUE)

\* last index of the run of characters outside S that starts at from
RunEndNot(t, from, S) == RunSearch(t, from, Len(t), S, FALSE)

CharAt(t, i) == IF i >= 1 /\ i <= Len(t) THEN t[i] ELSE "<end>"

Brackets == {"[", "]"}

\* r"\[(\d+)\]\s*([^\[\]]{10,200})" tried at position i:
\* [ok, num, ref, end], the groups and the last index of the match
bracket_match(t, i) ==
    LET dEnd   == RunEnd(t, i + 1, Digits)
        a      == dEnd + 2
        wsEnd  == RunEnd(t, a, Whitespace)
        runEnd == RunEndNot(t, a, Brackets)
        g      == IF wsEnd + 1 <= runEnd - MinRefLen + 1
                  THEN wsEnd + 1 ELSE runEnd - MinRefLen + 1
        e      == IF runEnd <= g + MaxRefLen - 1
                  THEN runEnd ELSE g + MaxRefLen - 1
        ok     == /\ CharAt(t, i) = "["
                  /\ dEnd >= i + 1
                  /\ CharAt(t, dEnd + 1) = "]"
                  /\ runEnd - a + 1 >= MinRefLen
    IN  [ok  |-> ok,
         num |-> IF ok THEN SubSeq(t, i + 1, dEnd) ELSE <<>>,
         ref |-> IF ok THEN SubSeq(t, g, e) ELSE <<>>,
         end |-> IF ok THEN e ELSE 0]

\* r"(10\.\d{4,}/[^\s]+)" tried at position i
doi_match(t, i) ==
    LET dEnd == RunEnd(t, i + 3, Digits)
        e    == RunEndNot(t, dEnd + 2, Whitespace)
        ok   == /\ MatchesAt(t, <<"1", "0", ".">>, i)
                /\ dEnd - (i + 3) + 1 >= MinDoiDigits
                /\ CharAt(t, dEnd + 1) = "/"
                /\ e >= dEnd + 2
    IN  [ok  |-> ok,
         ref |-> IF ok THEN SubSeq(t, i, e) ELSE <<>>,
         end |-> IF ok THEN e ELSE 0]

arxiv_prefix == <<"a", "r", "x", "i", "v", ":">>

\* r"(arXiv:\d{4}\.\d{4,5}(?:v\d+)?)" with re.IGNORECASE tried at position i
arxiv_match(t, i) ==
    LET d1   == i + 6
        d2   == i + 11
        n2   == IF CharAt(t, d2 + 4) \in Digits THEN d2 + 4 ELSE d2 + 3
        vEnd == RunEnd(t, n2 + 2, Digits)
        e    == IF LowerChar(CharAt(t, n2 + 1)) = "v" /\ vEnd >= n2 + 2
                THEN vEnd ELSE n2
        ok   == /\ i + 5 <= Len(t)
                /\ Lower(SubSeq(t, i, i + 5)) = arxiv_prefix
                /\ \A k \in d1..(d1 + 3) : CharAt(t, k) \in Digits
                /\ CharAt(t, d1 + 4) = "."
                /\ \A k \in d2..(d2 + 3) : CharAt(t, k) \in Digits
    IN  [ok  |-> ok,
         ref |-> IF ok THEN SubSeq(t, i, e) ELSE <<>>,
         end |-> IF ok THEN e ELSE 0]

\* re.findall: the non-overlapping matches, leftmost first
RECURSIVE bracket_refs(_, _)
bracket_refs(t, from) ==
    LET starts == {i \in from..Len(t) : t[i] = "[" /\ bracket_match(t, i).ok}
    IN  IF starts = {} THEN <<>>
        ELSE LET m == bracket_match(t, Min(starts))
             IN  <<m>> \o bracket_refs(t, m.end + 1)

RECURSIVE dois(_, _)
dois(t, from) ==
    LET starts == {i \in from..Len(t) : t[i] = "1" /\ doi_match(t, i).ok}
    IN  IF starts = {} THEN <<>>
        ELSE LET m == doi_match(t, Min(starts))
             IN  <<m.ref>> \o dois(t, m.end + 1)

RECURSIVE arxiv_refs(_, _)
arxiv_refs(t, from) ==
    LET starts == {i \in from..Len(t) :
                      LowerChar(t[i]) = "a" /\ arxiv_match(t, i).ok}
    IN  IF starts = {} THEN <<>>
        ELSE LET m == arxiv_match(t, Min(starts))
             IN  <<m.ref>> \o arxiv_refs(t, m.end + 1)

(***************************************************************************)
(* str(references): the repr of a list of str.                             *)
(***************************************************************************)
SQ == "'"

DQ == "\""

BS == "\\"

CharsOf(s) == {s[i] : i \in 1..Len(s)}

\* the quote repr(s) puts around s
ReprQuote(s) == IF SQ \in CharsOf(s) /\ DQ \notin CharsOf(s) THEN DQ ELSE SQ

ReprChar(c, q) ==
    IF c = BS THEN <<BS, BS>>
    ELSE IF c = q THEN <<BS, q>>
    ELSE IF c = "\n" THEN <<BS, "n">>
    ELSE IF c = "\t" THEN <<BS, "t">>
    ELSE IF c = "\r" THEN <<BS, "r">>
    ELSE <<c>>

\* repr(s) without the surrounding quotes
ReprBody(s) ==
    LET q == ReprQuote(s)
    IN  Concat([i \in 1..Len(s) |-> ReprChar(s[i], q)])

Repr(s) == <<ReprQuote(s)>> \o ReprBody(s) \o <<ReprQuote(s)>>

\* str(references)
StrOfList(refs) ==
    <<"[">> \o Join(<<",", " ">>, [k \in 1..Len(refs) |-> Repr(refs[k])])
      \o <<"]">>

(***************************************************************************)
(* _extract_references_from_text: the accumulator and the returned slice.  *)
(***************************************************************************)
\* f"[{num}] {ref.strip()}"
BracketEntry(m) == <<"[">> \o m.num \o <<"]", " ">> \o Strip(m.ref)

\* f"DOI: {doi}"
DoiEntry(d) == <<"D", "O", "I", ":", " ">> \o d

\* lines 67-68
bracket_entries(t) ==
    LET ms == bracket_refs(t, 1)
    IN  [k \in 1..Len(ms) |-> BracketEntry(ms[k])]

\* lines 72-74 without the test of line 73
RECURSIVE add_dois_NoCheck(_, _)
add_dois_NoCheck(refs, ds) ==
    IF ds = <<>> THEN refs
    ELSE add_dois_NoCheck(Append(refs, DoiEntry(Head(ds))), Tail(ds))

\* lines 72-74
RECURSIVE add_dois(_, _)
add_dois(refs, ds) ==
    IF ds = <<>> THEN refs
    ELSE add_dois(IF Contains(StrOfList(refs), Head(ds)) THEN refs
                  ELSE Append(refs, DoiEntry(Head(ds))),
                  Tail(ds))

\* lines 78-80
RECURSIVE add_arxiv(_, _)
add_arxiv(refs, as) ==
    IF as = <<>> THEN refs
    ELSE add_arxiv(IF Contains(StrOfList(refs), Head(as)) THEN refs
                   ELSE Append(refs, Head(as)),
                   Tail(as))

\* the list references at line 82, before the slice
accumulate(t) ==
    add_arxiv(add_dois(bracket_entries(t), dois(t, 1)), arxiv_refs(t, 1))

\* the slice taken one entry too long
Truncate_OffByOne(refs) ==
    SubSeq(refs, 1, IF Len(refs) <= MaxRefs + 1 THEN Len(refs) ELSE MaxRefs + 1)

\* references[:50]
Truncate(refs) == SubSeq(refs, 1, IF Len(refs) <= MaxRefs THEN Len(refs) ELSE MaxRefs)

extract_references_from_text(t) == Truncate(accumulate(t))

(***************************************************************************)
(* Input URLs: concatenations of at most MaxUrlPieces pieces.              *)
(***************************************************************************)
UrlPieces ==
    { <<"h","t","t","p",":">>,
      <<"/","/","a",".","i","o">>,
      <<"/","x">>,
      <<".","p","d","f">>,
      <<".","P","D","F">>,
      <<"?","q">>,
      <<"#","f">>,
      <<";","p">>,
      <<"[">>,
      <<"]">>,
      <<":",":","1">>,
      <<" ">>,
      <<"\t">>,
      <<"/","p","d","f","/">>,
      <<"/","D","o","w","n","l","o","a","d","/","p","d","f">>,
      <<"a","r","x","i","v",".","o","r","g","/","p","d","f">>,
      <<"e","x","p","o","r","t","=","d","o","w","n","l","o","a","d">> }

Urls == PieceSeqs(UrlPieces, MaxUrlPieces)

(***************************************************************************)
(* Input texts of the reference miner: concatenations of at most           *)
(* MaxTextPieces pieces, and texts long enough to fill the accumulator     *)
(* (MaxRefs - 1 or MaxRefs bracketed citations) or to exceed MaxRefLen,    *)
(* followed by at most MaxTailPieces pieces.                               *)
(***************************************************************************)
MaxTextPieces == 3

MaxTailPieces == 2

TextPieces ==
    { <<"[","1","]">>,
      <<"[","2","]">>,
      <<" ","S","m","i","t","h"," ","2","0","2","0">>,
      <<"1","0",".","1","0","0","0","/","x","y">>,
      <<"1","0",".","1","0","0","0","/","a","\\","b">>,
      <<".">>,
      <<" ">>,
      <<"\n">>,
      <<"a","r","X","i","v",":","2","5","0","6",".","1","8","7","8","3">>,
      <<"A","R","X","I","V",":","2","5","0","6",".","1","8","7","8">>,
      <<"v","1">>,
      <<"]">> }

TailPieces ==
    { <<"1","0",".","1","0","0","0","/","x","y">>,
      <<"a","r","X","i","v",":","2","5","0","6",".","1","8","7","8","3">>,
      <<" ">>,
      <<"[","1","]"," ","S","m","i","t","h"," ","2","0","2","0">>,
      <<".">> }

Citation == <<"[","7","]"," ","S","m","i","t","h"," ","2","0","2","0","]">>

Words == <<" ","S","m","i","t","h"," ","2","0","2","0">>

RECURSIVE Repeat(_, _)
Repeat(s, n) == IF n = 0 THEN <<>> ELSE s \o Repeat(s, n - 1)

\* more than MaxRefLen characters without a bracket after "[1]"
LongCitation == <<"[","1","]">> \o Repeat(Words, (MaxRefLen \div Len(Words)) + 1)

Fills ==
    { Repeat(Citation, MaxRefs - 1), Repeat(Citation, MaxRefs), LongCitation }

MinerTexts ==
    PieceSeqs(TextPieces, MaxTextPieces)
      \cup {f \o s : f \in Fills, s \in PieceSeqs(TailPieces, MaxTailPieces)}

(***************************************************************************)
(* ReadResult and the values the external libraries hand back.             *)
(***************************************************************************)
ReadResult(c, t, a, d, u, ct, refs, err) ==
    [content |-> c, title |-> t, author |-> a, publish_date |-> d,
     url |-> u, content_type |-> ct, references |-> refs, error |-> err]

\* the defaults of the dataclass (lines 26-32)
DefaultContentType == "html"

HTML_READ_FAILED == "HTML read failed: "

PDF_READ_FAILED == "PDF read failed: "

NO_CONTENT == "no main content could be extracted from this page"

\* ReadResult(content="", url=url, error=f"{prefix}{str(e)}")
ErrorResult(u, prefix, e) ==
    ReadResult(<<>>, NoneVal, NoneVal, NoneVal, u, DefaultContentType, <<>>,
               <<prefix, e>>)

\* NoContentResult without its error argument
NoContentResult_NoError(u) ==
    ReadResult(<<>>, NoneVal, NoneVal, NoneVal, u, DefaultContentType, <<>>,
               NoneVal)

\* lines 120-124
NoContentResult(u) ==
    ReadResult(<<>>, NoneVal, NoneVal, NoneVal, u, DefaultContentType, <<>>,
               <<NO_CONTENT>>)

NoResult == [error |-> <<"<no result>">>]

NoMetadata ==
    [present |-> FALSE, title |-> NoneVal, author |-> NoneVal, date |-> NoneVal]

NoDoc == [title |-> <<>>, author |-> <<>>, creationDate |-> <<>>, pages |-> <<>>]

\* exceptions a step can raise (all subclasses of Exception)
Errors == {"TimeoutError", "Error"}

\* HTTP statuses of a response
Statuses == {200, 404}

\* Python truthiness of an optional str
Truthy(x) == x # NoneVal /\ x # <<>>

SampleUrls ==
    { <<"h","t","t","p",":","/","/","a",".","i","o","/","x">>,
      <<"h","t","t","p",":","/","/","a",".","i","o","/","x",".","P","D","F","?","q">>,
      <<"h","t","t","p",":","/","/","a","r","x","i","v",".","o","r","g","/","p","d","f","/","x">>,
      <<"h","t","t","p",":","/","/","[","/","x",".","p","d","f">> }

\* what trafilatura.extract can hand back
SampleTexts ==
    { NoneVal, <<>>, <<" ", "\n">>,
      <<"h","i">>,
      <<"[","1","]"," ","S","m","i","t","h"," ","2","0","2","0"," ","1","0",".","1","0","0","0","/","x","y">> }

\* what extract_metadata can hand back
SampleMetadata ==
    { NoMetadata,
      [present |-> TRUE, title |-> <<"T">>, author |-> NoneVal,
       date |-> <<"2","0","2","3","-","0","6","-","1","5">>] }

SampleHtml == {<<"<", "p", ">">>}

\* the documents pymupdf.open can hand back
SamplePdfDocs ==
    { [title |-> <<"T">>, author |-> <<>>,
       creationDate |-> <<"D",":","2","0","2","3","0","6","1","5","1","2","0","0","0","0">>,
       pages |-> << <<"[","1","]"," ","S","m","i","t","h"," ","2","0","2","0","\n","\n","\n","\n","1","0",".","1","0","0","0","/","x","y">> >>],
      [title |-> <<>>, author |-> <<"A">>,
       creationDate |-> <<"2","0","2","3">>,
       pages |-> << <<" ", "\n">>, <<>> >>],
      [title |-> <<>>, author |-> <<>>, creationDate |-> <<>>,
       pages |-> << <<"a">>, <<" ">>, <<"b">> >>] }

(***************************************************************************)
(* parse_pdf and the assembly of the pdf content (lines 161-198).          *)
(***************************************************************************)
DigitOf(n) == CHOOSE d \in Digits : d = ToString(n)

RECURSIVE Str(_)
Str(n) == IF n < 10 THEN <<DigitOf(n)>> ELSE Str(n \div 10) \o <<DigitOf(n % 10)>>

\* f"## <di> {page_num + 1} <ye>\n\n{text}"
PageText(n, t) ==
    <<"#", "#", " ", "<di>", " ">> \o Str(n) \o <<" ", "<ye>", "\n", "\n">> \o t

\* lines 178-183
RECURSIVE full_text(_, _)
full_text(pages, n) ==
    IF n > Len(pages) THEN <<>>
    ELSE (IF Strip(pages[n]) # <<>> THEN <<PageText(n, pages[n])>> ELSE <<>>)
           \o full_text(pages, n + 1)

\* re.match(r"D:(\d{4})(\d{2})(\d{2})", creation_date), lines 171-175
parse_date(cd) ==
    IF /\ Len(cd) >= 10
       /\ cd[1] = "D"
       /\ cd[2] = ":"
       /\ \A k \in 3..10 : cd[k] \in Digits
    THEN SubSeq(cd, 3, 6) \o <<"-">> \o SubSeq(cd, 7, 8) \o <<"-">>
           \o SubSeq(cd, 9, 10)
    ELSE NoneVal

\* re.sub(r"\n{3,}", "\n\n", content)
RECURSIVE collapse_newlines(_)
collapse_newlines(c) ==
    IF c = <<>> THEN <<>>
    ELSE IF Head(c) = "\n"
         THEN LET e == RunEnd(c, 1, {"\n"})
              IN  (IF e >= 3 THEN <<"\n", "\n">> ELSE Upto(c, e))
                    \o collapse_newlines(From(c, e + 1))
         ELSE <<Head(c)>> \o collapse_newlines(Tail(c))

(***************************************************************************)
(* smart_read_to_markdown: the parts joined by blank lines.                *)
(***************************************************************************)
to_markdown(r, u) ==
    IF r.error # NoneVal /\ r.error # <<>>
    THEN << <<"# read failed">>, <<"**error**: ">> \o r.error, <<"**URL**: ">> \o u >>
    ELSE << IF Truthy(r.title) THEN <<"# ">> \o r.title ELSE <<"# unknown title">>,
            (IF Truthy(r.author) THEN <<"**author**: ">> \o r.author ELSE <<>>)
              \o (IF Truthy(r.publish_date)
                  THEN <<"**date**: ">> \o r.publish_date ELSE <<>>)
              \o <<"**source**: ">> \o u
              \o <<"**type**: ", IF r.content_type = "pdf" THEN "PDF" ELSE "HTML">>,
            <<"---">>,
            r.content >>
          \o (IF r.references # <<>>
              THEN << <<"## references">> >>
                     \o [k \in 1..Len(r.references) |-> <<"- ">> \o r.references[k]]
              ELSE <<>>)

(***************************************************************************)
(* State after the call is made.                                           *)
(***************************************************************************)
Idle ==
    /\ steps = <<>>
    /\ result = NoResult
    /\ exc = "none"
    /\ output = NoneVal
    /\ driver = "none"
    /\ browser = "none"
    /\ session = "none"
    /\ response = "none"
    /\ status = 0
    /\ strategy = "none"
    /\ timeout = 0
    /\ html_content = NoneVal
    /\ metadata = NoMetadata
    /\ text_content = NoneVal
    /\ pdf_doc = NoDoc
    /\ content = <<>>
    /\ references = <<>>
    /\ accumulator = <<>>
    /\ mined = <<>>

Init ==
    /\ url \in SampleUrls
    /\ use_playwright \in BOOLEAN
    /\ entry \in {"smart_read", "smart_read_to_markdown"}
    /\ pc = "Start"
    /\ cls = "none"
    /\ text = <<>>
    /\ Idle

Step(name) == steps' = Append(steps, name)

\* line 52: page.goto(..., timeout=30000), in milliseconds
GotoTimeout == 30000

\* line 98: aiohttp.ClientTimeout(total=30), in seconds
HtmlTimeout == 30

\* line 153: aiohttp.ClientTimeout(total=60), in seconds
PdfTimeout == 60

\* HtmlFailed salvaging the metadata gathered before the failure
HtmlFailed_KeepsMetadata(e) ==
    /\ exc' = e
    /\ result' = [ErrorResult(url, HTML_READ_FAILED, e)
                    EXCEPT !.title = metadata.title]
    /\ pc' = "Returned"

\* the except clause of _read_html (lines 139-140) returns to smart_read,
\* which returns the result to its caller
HtmlFailed(e) ==
    /\ exc' = e
    /\ result' = ErrorResult(url, HTML_READ_FAILED, e)
    /\ pc' = "Returned"

\* PdfFailed with the message of the html path
PdfFailed_HtmlPrefix(e) ==
    /\ exc' = e
    /\ result' = ErrorResult(url, HTML_READ_FAILED, e)
    /\ pc' = "Returned"

\* the except clause of _read_pdf (lines 210-211)
PdfFailed(e) ==
    /\ exc' = e
    /\ result' = ErrorResult(url, PDF_READ_FAILED, e)
    /\ pc' = "Returned"

(***************************************************************************)
(* smart_read, line 248: the classification step.  urlparse is called      *)
(* outside any try block.                                                  *)
(***************************************************************************)
Classify ==
    /\ pc = "Start"
    /\ Step("classify")
    /\ IF UrlParseRaises(url)
       THEN /\ pc' = "Raised"
            /\ exc' = "ValueError"
            /\ cls' = cls
       ELSE /\ pc' = "Classified"
            /\ cls' = IF is_pdf_url(url) THEN "pdf" ELSE "html"
            /\ exc' = exc
    /\ UNCHANGED <<inputs, request, result, output, resources, data, miner>>

(***************************************************************************)
(* _fetch_html_with_playwright (lines 35-57), called at line 89.           *)
(***************************************************************************)
\* lines 88-89 and 37: use_playwright is true, async with async_playwright()
AsyncPlaywright ==
    /\ pc = "Classified" /\ cls = "html" /\ use_playwright
    /\ Step("fetch")
    /\ strategy' = "rendering"
    /\ timeout' = timeout
    /\ \/ /\ driver' = "started"
          /\ pc' = "launch"
          /\ UNCHANGED <<result, exc>>
       \/ \E e \in Errors : HtmlFailed(e) /\ driver' = driver
    /\ UNCHANGED <<inputs, cls, output, browser, session, response, status,
                   data, miner>>

\* line 38: browser = await p.chromium.launch(headless=True)
Launch ==
    /\ pc = "launch"
    /\ \/ /\ browser' = "open"
          /\ pc' = "new_context"
          /\ UNCHANGED <<result, exc, driver>>
       \/ \E e \in Errors :
            HtmlFailed(e) /\ driver' = "stopped" /\ browser' = browser
    /\ UNCHANGED <<inputs, request, cls, steps, output, session, response,
                   status, data, miner>>

\* an awaited call between launch and browser.close(): it returns, or it
\* raises and the exception leaves the async with block of line 37, which
\* stops the driver; no statement closes the browser on that path
PageCall(at, next) ==
    /\ pc = at
    /\ \/ /\ pc' = next
          /\ UNCHANGED <<result, exc, driver>>
       \/ \E e \in Errors : HtmlFailed(e) /\ driver' = "stopped"
    /\ UNCHANGED <<inputs, cls, steps, output, browser, session, response,
                   status, data, miner>>

\* line 39
NewContext == PageCall("new_context", "new_page") /\ UNCHANGED request

\* line 45
NewPage == PageCall("new_page", "add_init_script") /\ UNCHANGED request

\* line 48
AddInitScript == PageCall("add_init_script", "goto") /\ UNCHANGED request

\* line 52: navigation, timeout=30000
Goto ==
    /\ PageCall("goto", "wait_for_load_state")
    /\ timeout' = GotoTimeout
    /\ strategy' = strategy

\* line 53
WaitForLoadState ==
    PageCall("wait_for_load_state", "page_content") /\ UNCHANGED request

\* line 54
PageContent == PageCall("page_content", "browser_close") /\ UNCHANGED request

\* lines 55-57: browser.close(), the end of the async with block, the return
BrowserClose ==
    /\ pc = "browser_close"
    /\ \/ /\ browser' = "closed"
          /\ driver' = "stopped"
          /\ \E h \in SampleHtml : html_content' = h
          /\ pc' = "extract_metadata"
          /\ UNCHANGED <<result, exc>>
       \/ \E e \in Errors :
            /\ HtmlFailed(e)
            /\ driver' = "stopped"
            /\ UNCHANGED <<browser, html_content>>
    /\ UNCHANGED <<inputs, request, cls, steps, output, session, response,
                   status, metadata, text_content, pdf_doc, content,
                   references, miner>>

(***************************************************************************)
(* The aiohttp fetch of _read_html (lines 92-101).                         *)
(***************************************************************************)
\* lines 92-99: the session is entered and the GET is sent, timeout 30
HtmlGet ==
    /\ pc = "Classified" /\ cls = "html" /\ ~use_playwright
    /\ Step("fetch")
    /\ strategy' = "lightweight"
    /\ timeout' = HtmlTimeout
    /\ \/ /\ session' = "open"
          /\ response' = "open"
          /\ \E st \in Statuses : status' = st
          /\ pc' = "html_raise_for_status"
          /\ UNCHANGED <<result, exc>>
       \/ \E e \in Errors :
            /\ HtmlFailed(e)
            /\ session' = "closed"
            /\ UNCHANGED <<response, status>>
    /\ UNCHANGED <<inputs, cls, output, driver, browser, data, miner>>

\* line 100
HtmlRaiseForStatus ==
    /\ pc = "html_raise_for_status"
    /\ IF status >= 400
       THEN /\ HtmlFailed("ClientResponseError")
            /\ response' = "released"
            /\ session' = "closed"
       ELSE /\ pc' = "html_text"
            /\ UNCHANGED <<result, exc, response, session>>
    /\ UNCHANGED <<inputs, request, cls, steps, output, driver, browser,
                   status, data, miner>>

\* line 101, then the two async with blocks are left
HtmlText ==
    /\ pc = "html_text"
    /\ response' = "released"
    /\ session' = "closed"
    /\ \/ /\ \E h \in SampleHtml : html_content' = h
          /\ pc' = "extract_metadata"
          /\ UNCHANGED <<result, exc>>
       \/ \E e \in Errors : HtmlFailed(e) /\ html_content' = html_content
    /\ UNCHANGED <<inputs, request, cls, steps, output, driver, browser,
                   status, metadata, text_content, pdf_doc, content,
                   references, miner>>

(***************************************************************************)
(* Extraction and assembly of _read_html (lines 103-137).                  *)
(***************************************************************************)
\* line 105
ExtractMetadata ==
    /\ pc = "extract_metadata"
    /\ Step("extract")
    /\ \/ /\ \E m \in SampleMetadata : metadata' = m
          /\ pc' = "extract_content"
          /\ UNCHANGED <<result, exc>>
       \/ \E e \in Errors : HtmlFailed(e) /\ metadata' = metadata
    /\ UNCHANGED <<inputs, request, cls, output, resources, html_content,
                   text_content, pdf_doc, content, references, miner>>

\* lines 108-117
ExtractContent ==
    /\ pc = "extract_content"
    /\ \/ /\ \E t \in SampleTexts : text_content' = t
          /\ pc' = "check_content"
          /\ UNCHANGED <<result, exc>>
       \/ \E e \in Errors : HtmlFailed(e) /\ text_content' = text_content
    /\ UNCHANGED <<inputs, request, cls, steps, output, resources,
                   html_content, metadata, pdf_doc, content, references,
                   miner>>

\* lines 119-124: if not text_content
CheckContent ==
    /\ pc = "check_content"
    /\ IF ~Truthy(text_content)
       THEN /\ result' = NoContentResult(url)
            /\ pc' = "Returned"
       ELSE /\ pc' = "html_references"
            /\ result' = result
    /\ UNCHANGED <<inputs, request, cls, steps, exc, output, resources, data,
                   miner>>

\* line 127
HtmlReferences ==
    /\ pc = "html_references"
    /\ Step("mine")
    /\ text' = text_content
    /\ accumulator' = accumulate(text_content)
    /\ mined' = extract_references_from_text(text_content)
    /\ references' = mined'
    /\ pc' = "html_return"
    /\ UNCHANGED <<inputs, request, cls, result, exc, output, resources,
                   html_content, metadata, text_content, pdf_doc, content>>

\* lines 129-137
HtmlReturn ==
    /\ pc = "html_return"
    /\ result' = ReadResult(text_content,
                            IF metadata.present THEN metadata.title ELSE NoneVal,
                            IF metadata.present THEN metadata.author ELSE NoneVal,
                            IF metadata.present THEN metadata.date ELSE NoneVal,
                            url, "html", references, NoneVal)
    /\ pc' = "Returned"
    /\ UNCHANGED <<inputs, request, cls, steps, exc, output, resources, data,
                   miner>>

(***************************************************************************)
(* _read_pdf (lines 143-211).                                              *)
(***************************************************************************)
\* PdfGet with the timeout of the html request
PdfGet_HtmlTimeout ==
    /\ pc = "Classified" /\ cls = "pdf"
    /\ Step("fetch")
    /\ strategy' = "lightweight"
    /\ timeout' = HtmlTimeout
    /\ \/ /\ session' = "open"
          /\ response' = "open"
          /\ \E st \in Statuses : status' = st
          /\ pc' = "pdf_raise_for_status"
          /\ UNCHANGED <<result, exc>>
       \/ \E e \in Errors :
            /\ PdfFailed(e)
            /\ session' = "closed"
            /\ UNCHANGED <<response, status>>
    /\ UNCHANGED <<inputs, cls, output, driver, browser, data, miner>>

\* lines 147-154: the session is entered and the GET is sent, timeout 60
PdfGet ==
    /\ pc = "Classified" /\ cls = "pdf"
    /\ Step("fetch")
    /\ strategy' = "lightweight"
    /\ timeout' = PdfTimeout
    /\ \/ /\ session' = "open"
          /\ response' = "open"
          /\ \E st \in Statuses : status' = st
          /\ pc' = "pdf_raise_for_status"
          /\ UNCHANGED <<result, exc>>
       \/ \E e \in Errors :
            /\ PdfFailed(e)
            /\ session' = "closed"
            /\ UNCHANGED <<response, status>>
    /\ UNCHANGED <<inputs, cls, output, driver, browser, data, miner>>

\* line 155
PdfRaiseForStatus ==
    /\ pc = "pdf_raise_for_status"
    /\ IF status >= 400
       THEN /\ PdfFailed("ClientResponseError")
            /\ response' = "released"
            /\ session' = "closed"
       ELSE /\ pc' = "pdf_read"
            /\ UNCHANGED <<result, exc, response, session>>
    /\ UNCHANGED <<inputs, request, cls, steps, output, driver, browser,
                   status, data, miner>>

\* line 156, then the two async with blocks are left
PdfRead ==
    /\ pc = "pdf_read"
    /\ response' = "released"
    /\ session' = "closed"
    /\ \/ /\ pc' = "parse_pdf"
          /\ UNCHANGED <<result, exc>>
       \/ \E e \in Errors : PdfFailed(e)
    /\ UNCHANGED <<inputs, request, cls, steps, output, driver, browser,
                   status, data, miner>>

\* ParsePdf calling the parser again after it has raised
ParsePdf_Retry ==
    /\ pc = "parse_pdf"
    /\ Step("extract")
    /\ \/ /\ \E doc \in SamplePdfDocs :
               /\ pdf_doc' = doc
               /\ metadata' = [present |-> TRUE, title |-> doc.title,
                               author |-> doc.author,
                               date |-> IF doc.creationDate # <<>>
                                        THEN parse_date(doc.creationDate)
                                        ELSE NoneVal]
               /\ content' = Join(<<"\n", "\n">>, full_text(doc.pages, 1))
          /\ pc' = "pdf_references"
          /\ UNCHANGED <<result, exc>>
       \/ /\ pc' = "parse_pdf"
          /\ UNCHANGED <<result, exc, pdf_doc, metadata, content>>
    /\ UNCHANGED <<inputs, request, cls, output, resources, html_content,
                   text_content, references, miner>>

\* lines 161-192: parse_pdf in the executor, then the join of the pages
ParsePdf ==
    /\ pc = "parse_pdf"
    /\ Step("extract")
    /\ \/ /\ \E doc \in SamplePdfDocs :
               /\ pdf_doc' = doc
               /\ metadata' = [present |-> TRUE, title |-> doc.title,
                               author |-> doc.author,
                               date |-> IF doc.creationDate # <<>>
                                        THEN parse_date(doc.creationDate)
                                        ELSE NoneVal]
               /\ content' = Join(<<"\n", "\n">>, full_text(doc.pages, 1))
          /\ pc' = "pdf_references"
          /\ UNCHANGED <<result, exc>>
       \/ \E e \in Errors :
            PdfFailed(e) /\ UNCHANGED <<pdf_doc, metadata, content>>
    /\ UNCHANGED <<inputs, request, cls, output, resources, html_content,
                   text_content, references, miner>>

\* line 195
PdfReferences ==
    /\ pc = "pdf_references"
    /\ Step("mine")
    /\ text' = content
    /\ accumulator' = accumulate(content)
    /\ mined' = extract_references_from_text(content)
    /\ references' = mined'
    /\ pc' = "pdf_return"
    /\ UNCHANGED <<inputs, request, cls, result, exc, output, resources,
                   html_content, metadata, text_content, pdf_doc, content>>

\* lines 198-208
PdfReturn ==
    /\ pc = "pdf_return"
    /\ content' = collapse_newlines(content)
    /\ result' = ReadResult(content',
                            IF metadata.title # <<>> THEN metadata.title ELSE NoneVal,
                            IF metadata.author # <<>> THEN metadata.author ELSE NoneVal,
                            metadata.date, url, "pdf", references, NoneVal)
    /\ pc' = "Returned"
    /\ UNCHANGED <<inputs, request, cls, steps, exc, output, resources,
                   html_content, metadata, text_content, pdf_doc, references,
                   miner>>

(***************************************************************************)
(* smart_read_to_markdown (lines 265-302) on the result of smart_read.     *)
(***************************************************************************)
ToMarkdown ==
    /\ pc = "Returned" /\ entry = "smart_read_to_markdown"
    /\ output' = to_markdown(result, url)
    /\ pc' = "Formatted"
    /\ UNCHANGED <<inputs, request, cls, steps, result, exc, resources, data,
                   miner>>

Next ==
    \/ Classify
    \/ AsyncPlaywright \/ Launch \/ NewContext \/ NewPage \/ AddInitScript
    \/ Goto \/ WaitForLoadState \/ PageContent \/ BrowserClose
    \/ HtmlGet \/ HtmlRaiseForStatus \/ HtmlText
    \/ ExtractMetadata \/ ExtractContent \/ CheckContent
    \/ HtmlReferences \/ HtmlReturn
    \/ PdfGet \/ PdfRaiseForStatus \/ PdfRead \/ ParsePdf
    \/ PdfReferences \/ PdfReturn
    \/ ToMarkdown

Spec == Init /\ [][Next]_vars

(***************************************************************************)
(* The classifier alone, over every URL of the bound.                      *)
(***************************************************************************)
InitClassifier ==
    /\ url \in Urls
    /\ use_playwright \in BOOLEAN
    /\ entry = "smart_read"
    /\ pc = "Start"
    /\ cls = "none"
    /\ text = <<>>
    /\ Idle

NextClassifier == Classify

SpecClassifier == InitClassifier /\ [][NextClassifier]_vars

(***************************************************************************)
(* The reference miner alone, over every text of the bound.                *)
(***************************************************************************)
\* one call of _extract_references_from_text(text)
Mine ==
    /\ pc = "MineStart"
    /\ accumulator' = accumulate(text)
    /\ mined' = extract_references_from_text(text)
    /\ pc' = "Mined"
    /\ UNCHANGED <<inputs, request, cls, steps, result, exc, output,
                   resources, data, text>>

InitMiner ==
    /\ text \in MinerTexts
    /\ url = <<>>
    /\ use_playwright = TRUE
    /\ entry = "smart_read"
    /\ pc = "MineStart"
    /\ cls = "none"
    /\ Idle

NextMiner == Mine

SpecMiner == InitMiner /\ [][NextMiner]_vars

(***************************************************************************)
(* Properties.                                                             *)
(***************************************************************************)
\* smart_read has returned a ReadResult to its caller
Done == pc \in {"Returned", "Formatted"}

ErrorSet == result.error # NoneVal

Count(seq, x) == Cardinality({i \in 1..Len(seq) : seq[i] = x})

\* C1: for every URL and either use_playwright, smart_read and
\* smart_read_to_markdown end by returning a value: no exception escapes
\* them, and the classification step never fails (once it has run, the URL
\* is classified pdf or html).
C1_NoExceptionEscapes ==
    /\ pc # "Raised"
    /\ steps # <<>> => cls \in {"pdf", "html"}

\* C2: every ReadResult returned, on the html or the pdf path, has exactly
\* one of: error set, content non-empty.
C2_ExactlyOneOfErrorAndContent ==
    Done => (ErrorSet <=> result.content = <<>>)

\* C2 as amended: error set and non-empty content never occur together on
\* either path; on the html path exactly one of the two holds; on the pdf
\* path a result with error unset and empty content is returned only for a
\* document none of whose pages has text.
C2_Amended ==
    Done =>
      /\ ~(ErrorSet /\ result.content # <<>>)
      /\ cls = "html" => (ErrorSet <=> result.content = <<>>)
      /\ cls = "pdf" /\ ~ErrorSet /\ result.content = <<>>
           => \A k \in 1..Len(pdf_doc.pages) : Strip(pdf_doc.pages[k]) = <<>>

\* a pdf without page text comes back as a success with empty content
C2_Witness ==
    /\ Done
    /\ cls = "pdf"
    /\ ~ErrorSet
    /\ result.content = <<>>
    /\ Len(pdf_doc.pages) > 0

\* C3: a ReadResult returned with error set carries only url and error:
\* content is empty, title, author and publish_date are unset, references
\* is empty, however far the invocation got; url is the input URL.
C3_ErroredCarriesOnlyUrlAndError ==
    Done /\ ErrorSet =>
      /\ result.content = <<>>
      /\ result.title = NoneVal
      /\ result.author = NoneVal
      /\ result.publish_date = NoneVal
      /\ result.references = <<>>
      /\ result.url = url

\* a failure after the fetch was done and metadata with a title extracted
C3_Witness ==
    /\ Done
    /\ ErrorSet
    /\ html_content # NoneVal
    /\ metadata.present
    /\ metadata.title # NoneVal

\* C4: content_type of every returned ReadResult, successful or errored,
\* names the path that produced it: pdf exactly when the URL was classified
\* pdf, html exactly when it was classified html.
C4_ContentTypeNamesPath ==
    Done =>
      /\ result.content_type = "pdf" <=> cls = "pdf"
      /\ result.content_type = "html" <=> cls = "html"

\* the call has returned, no exception was caught on the way, and the
\* main-content pass had yielded None, "" or only whitespace
YieldsNothing ==
    /\ Done
    /\ html_content # NoneVal
    /\ exc = "none"
    /\ \/ text_content = NoneVal
       \/ Strip(text_content) = <<>>

\* C5: on the html path, when the main-content pass yields nothing (None,
\* the empty string or a whitespace-only string) the result has error set
\* and content empty; no successful result has empty or whitespace-only
\* content.
C5_EmptyExtractionIsError ==
    Done /\ cls = "html" =>
      /\ YieldsNothing => ErrorSet /\ result.content = <<>>
      /\ ~ErrorSet => Strip(result.content) # <<>>

\* the fetch step was started and raised: no later step has run
FetchFailed == Done /\ steps = <<"classify", "fetch">>

\* C6: when the fetch step fails (timeout, status, connection, engine
\* launch) the result is errored and its message starts with the prefix of
\* the content type attempted.
C6_FetchFailurePrefix ==
    FetchFailed =>
      /\ ErrorSet
      /\ cls = "html" => result.error[1] = HTML_READ_FAILED
      /\ cls = "pdf" => result.error[1] = PDF_READ_FAILED

\* the download of a pdf timed out
C6_Witness ==
    /\ FetchFailed
    /\ cls = "pdf"
    /\ exc = "TimeoutError"
    /\ result.error[1] = PDF_READ_FAILED

\* C7: every browser and every HTTP session or response acquired by a
\* fetch is released before smart_read returns, on every exit path.
C7_ResourcesReleased ==
    Done => browser # "open" /\ session # "open" /\ response # "open"

\* the pdf signals of a URL: its path component, lower-cased, ends in
\* ".pdf", or the lower-cased URL contains one of the four substrings
PdfSignal(u) ==
    \/ EndsWith(Lower(UrlParsePath(u)), <<".", "p", "d", "f">>)
    \/ Contains(Lower(u), <<"/","p","d","f","/">>)
    \/ Contains(Lower(u), <<"/","d","o","w","n","l","o","a","d","/","p","d","f">>)
    \/ Contains(Lower(u), <<"a","r","x","i","v",".","o","r","g","/","p","d","f">>)
    \/ Contains(Lower(u), <<"e","x","p","o","r","t","=","d","o","w","n","l","o","a","d">>)

\* C8: the classifier returns pdf for a URL if and only if the URL has a
\* pdf signal, and html for every other URL.
C8_ClassifierIff ==
    pc # "Start" =>
      /\ cls = "pdf" <=> PdfSignal(url)
      /\ cls = "html" <=> ~PdfSignal(url)

IsBracketEntry(e) == Len(e) >= 1 /\ e[1] = "["

IsDoiEntry(e) == MatchesAt(e, <<"D", "O", "I", ":", " ">>, 1)

\* 1 for a bracketed citation, 2 for a DOI entry, 3 for an arXiv entry
Kind(e) == IF IsBracketEntry(e) THEN 1 ELSE IF IsDoiEntry(e) THEN 2 ELSE 3

\* the bracketed entry e is spelled in t from position p on: "[n]", then
\* whitespace, then the text of the entry
BracketEntryAt(t, e, p) ==
    LET rb   == Find(e, "]", 1)
        body == From(e, rb + 2)
    IN  /\ MatchesAt(t, Upto(e, rb), p)
        /\ \E q \in (p + rb)..(Len(t) + 1) :
             /\ \A k \in (p + rb)..(q - 1) : t[k] \in Whitespace
             /\ MatchesAt(t, body, q)

\* the entries occur in t one after the other
RECURSIVE InTextOrder(_, _, _)
InTextOrder(t, entries, from) ==
    IF entries = <<>> THEN TRUE
    ELSE LET ps == {p \in from..Len(t) :
                       t[p] = "[" /\ BracketEntryAt(t, Head(entries), p)}
         IN  /\ ps # {}
             /\ InTextOrder(t, Tail(entries), Min(ps) + 1)

\* C9: the miner returns at most 50 entries, the first 50 of the
\* accumulator, which holds the bracketed citations in text order, then the
\* DOI entries, then the arXiv entries: no DOI entry precedes a bracketed
\* one and no arXiv entry precedes a DOI one.
C9_CappedInScanOrder ==
    pc = "Mined" =>
      /\ Len(mined) <= 50
      /\ Len(mined) = IF Len(accumulator) < 50 THEN Len(accumulator) ELSE 50
      /\ \A i \in 1..Len(mined) : mined[i] = accumulator[i]
      /\ \A i, j \in 1..Len(accumulator) :
           i < j => Kind(accumulator[i]) <= Kind(accumulator[j])
      /\ InTextOrder(text, SelectSeq(accumulator, IsBracketEntry), 1)

\* more than 50 entries were collected, of all three kinds
C9_Witness ==
    /\ pc = "Mined"
    /\ Len(accumulator) > 50
    /\ Len(mined) = 50
    /\ \E i, j, k \in 1..Len(accumulator) :
         /\ Kind(accumulator[i]) = 1
         /\ Kind(accumulator[j]) = 2
         /\ Kind(accumulator[k]) = 3

\* the DOI-pattern matches of the text, each running to the next whitespace
DoiMatches == LET ds == dois(text, 1) IN {ds[k] : k \in 1..Len(ds)}

\* C10: for every text containing a DOI-pattern substring d, wherever d
\* occurs, the result contains the entry "DOI: d" exactly once.
C10_DoiExactlyOnce ==
    pc = "Mined" => \A d \in DoiMatches : Count(mined, DoiEntry(d)) = 1

\* d occurs in the string rendering of entries collected before any
\* "DOI: d" entry
Shadowed(d) ==
    \E n \in 0..Len(accumulator) :
      /\ \A i \in 1..n : accumulator[i] # DoiEntry(d)
      /\ Contains(StrOfList(Upto(accumulator, n)), d)

\* the entry "DOI: d" was collected after the first 50 entries
PastCap(d) == \E i \in 51..Len(accumulator) : accumulator[i] = DoiEntry(d)

\* C10 as amended: for every DOI-pattern match d of the text (it runs to
\* the next whitespace), the result contains "DOI: d" unless d already
\* occurs in the string rendering of the entries collected before it (a
\* bracketed citation or an earlier DOI entry that contains d) or 50
\* entries precede it; and it contains "DOI: d" at most once unless the
\* rendering escapes a character of d (a backslash), in which case every
\* repetition of d is collected again.
C10_Amended ==
    pc = "Mined" =>
      \A d \in DoiMatches :
        /\ Count(mined, DoiEntry(d)) >= 1 \/ Shadowed(d) \/ PastCap(d)
        /\ Count(mined, DoiEntry(d)) <= 1 \/ ReprBody(d) # d

\* a DOI that is repeated in the text and is in the result once
C10_Witness ==
    /\ pc = "Mined"
    /\ \E i, j \in 1..Len(dois(text, 1)) :
         /\ i < j
         /\ dois(text, 1)[i] = dois(text, 1)[j]
         /\ Count(mined, DoiEntry(dois(text, 1)[i])) = 1

\* the four steps of an invocation, in the order of the code
StepOrder == <<"classify", "fetch", "extract", "mine">>

IsPrefix(s, t) == Len(s) <= Len(t) /\ s = SubSeq(t, 1, Len(s))

\* the call has returned a ReadResult with error set
Errored == Done /\ ErrorSet

\* the call has returned a ReadResult with error unset
Succeeded == Done /\ ~ErrorSet

\* the text the extraction step produced on the path taken
ExtractedText ==
    IF cls = "pdf" THEN Join(<<"\n", "\n">>, full_text(pdf_doc.pages, 1))
    ELSE text_content

\* the steps run are classify, fetch, extract, mine in that order, each at
\* most once; an exception caught at fetch or extraction ends the call with
\* an errored result and the mining step not run; a successful result is
\* returned only after all four steps, with the references mined from the
\* extracted text
StepsInOrder ==
    /\ IsPrefix(steps, StepOrder)
    /\ exc # "none" /\ pc # "Raised" => Errored
    /\ Errored => steps \in {<<"classify", "fetch">>,
                             <<"classify", "fetch", "extract">>}
    /\ Succeeded =>
         /\ steps = StepOrder
         /\ text = ExtractedText
         /\ mined = extract_references_from_text(text)
         /\ result.references = mined

\* from an errored result on, no step runs and the result stays as it is
ErroredAbsorbing ==
    Errored => Errored' /\ result' = result /\ steps' = steps /\ exc' = exc

\* C11: within one invocation the steps run in the order classify, fetch,
\* extract, mine references, each at most once (nothing is retried); after
\* the first failure at fetch or extraction no later step runs and the
\* invocation ends errored, which is absorbing; a successful result is
\* reached only after reference mining has run on the extracted text.
C11_StepsOnceNoRetry == []StepsInOrder /\ [][ErroredAbsorbing]_vars

\* the extraction raised after a fetch that succeeded, the errored result
\* was handed to the formatter, and neither a second fetch or extraction
\* nor the mining step has run
C11_Witness ==
    /\ pc = "Formatted"
    /\ Errored
    /\ exc # "none"
    /\ steps = <<"classify", "fetch", "extract">>

\* the fetch step has been started
FetchStarted == Len(steps) >= 2

\* the extraction step has run and has not raised
Extracted == Len(steps) >= 3 /\ exc = "none"

\* C12: the fetch strategy is determined by the classification and by
\* use_playwright only: the rendering fetch is used if and only if the URL
\* is classified html and use_playwright is true; an html URL with
\* use_playwright false is fetched by the lightweight fetch with a timeout
\* of 30 s; a pdf URL is fetched by the lightweight fetch with a timeout of
\* 60 s and handed to the PDF extractor, whatever use_playwright is.
C12_StrategyByClassAndPreference ==
    /\ ~FetchStarted => strategy = "none" /\ driver = "none" /\ session = "none"
    /\ FetchStarted =>
         /\ strategy \in {"rendering", "lightweight"}
         /\ strategy = "rendering" <=> (cls = "html" /\ use_playwright)
         /\ strategy = "rendering" => session = "none" /\ response = "none"
         /\ strategy = "lightweight" => driver = "none" /\ browser = "none"
         /\ cls = "html" /\ ~use_playwright
              => strategy = "lightweight" /\ timeout = 30
         /\ cls = "pdf" => strategy = "lightweight" /\ timeout = 60
    /\ cls = "pdf" => html_content = NoneVal /\ text_content = NoneVal
    /\ cls = "html" => pdf_doc = NoDoc
    /\ Extracted /\ cls = "pdf" => pdf_doc \in SamplePdfDocs
    /\ Extracted /\ cls = "html" => metadata \in SampleMetadata

\* a pdf URL read with use_playwright true: downloaded by the lightweight
\* fetch with the 60 s timeout, no browser started, parsed as a PDF
C12_Witness ==
    /\ Succeeded
    /\ cls = "pdf"
    /\ use_playwright
    /\ strategy = "lightweight"
    /\ timeout = 60
    /\ driver = "none"
    /\ pdf_doc \in SamplePdfDocs

====
